---- MODULE Spec2Model ----
(***************************************************************************)
(* Model of zotero_files2md/converter.py: the conversion orchestrator      *)
(* convert_attachment_to_markdown and the per-thread converter cache of    *)
(* _render_markdown, run by a pool of worker threads over a shared         *)
(* filesystem.                                                             *)
(***************************************************************************)
EXTENDS Integers, Sequences, FiniteSets, TLC

VARIABLES
    fs,                 \* output files: path -> content, DOMAIN fs = the paths that exist
    dirs,               \* the directories that exist under output_dir
    downloaded,         \* the attachments whose local file_path exists on disk
    _converter_local,   \* threading.local(): per slot, the attributes set on it
    pc,                 \* per worker, the position inside convert_attachment_to_markdown
    call                \* per worker, the current (or last returned) call and what it did

vars == <<fs, dirs, downloaded, _converter_local, pc, call>>

-----------------------------------------------------------------------------
(* Bounds of the model *)

NumAttachments == 2
MaxScale == 1

Workers == {"w1", "w2"}
MainThread == "w1"
Attachments == 1..NumAttachments
Scales == 1..MaxScale

(* get_pipeline_options(num_threads=4) and AcceleratorDevice.AUTO *)
NumThreads == 4
AUTO == "auto"

(* ExportSettings: the fields the converter reads *)
ExportSettings ==
    [overwrite : BOOLEAN, dry_run : BOOLEAN,
     force_full_page_ocr : BOOLEAN,
     do_picture_description : {FALSE},
     image_resolution_scale : Scales]

-----------------------------------------------------------------------------
(* Paths and file contents *)

(* compute_output_path: output_dir/<slug(parent)>/<slug(attachment)>.md;    *)
(* attachments 2k-1 and 2k share the parent item k.                         *)
compute_output_path(attachment) == <<(attachment + 1) \div 2, attachment>>

Parent(output_path) == output_path[1]

OutputPaths == {compute_output_path(a) : a \in Attachments}
Directories == {Parent(p) : p \in OutputPaths}

(* the local file the attachment was downloaded to *)
FilePath(attachment) == <<"download", attachment>>

Exists(path) == path \in DOMAIN fs

(* content of an output file that was there before any call *)
OldContent == <<"old">>

(* result.document.export_to_markdown(...): the text rendered from a file,  *)
(* with embedded images and page break markers                             *)
export_to_markdown(document) ==
    <<"markdown", document.source, "embedded", "--- Page Break ---">>

(* markdown.encode("utf-8") *)
Encode(markdown) == markdown

(* write_bytes appending to what is there instead of replacing it *)
write_bytes_append(files, path, data, outcome) ==
    CASE outcome = "ok" ->
            [q \in DOMAIN files \cup {path} |->
                IF q = path
                THEN (IF path \in DOMAIN files THEN files[path] ELSE <<>>) \o data
                ELSE files[q]]
      [] outcome = "write_fails" ->
            [q \in DOMAIN files \cup {path} |-> IF q = path THEN <<>> ELSE files[q]]
      [] OTHER -> files

(* write_bytes whose data never reaches output_path *)
write_bytes_lost(files, path, data, outcome) == files

(* Path.write_bytes: open(mode="wb") truncates, then the data is written.   *)
(* "ok" writes all of it, "open_fails" leaves the path as it was,           *)
(* "write_fails" leaves the truncated file behind.                          *)
WriteOutcomes == {"ok", "open_fails", "write_fails"}

write_bytes(files, path, data, outcome) ==
    CASE outcome = "ok" ->
            [q \in DOMAIN files \cup {path} |-> IF q = path THEN data ELSE files[q]]
      [] outcome = "write_fails" ->
            [q \in DOMAIN files \cup {path} |-> IF q = path THEN <<>> ELSE files[q]]
      [] OTHER -> files

-----------------------------------------------------------------------------
(* The converter cache *)

(* one module-level cache shared by every thread *)
SharedSlot(w) == MainThread

(* threading.local(): the slot a worker thread sees is its own *)
LocalSlot(w) == w

(* a thread-local object on which no attribute was set yet: getattr(...,   *)
(* None) gives None for both, written <<>> for the key and {} for the      *)
(* converter                                                               *)
NoAttributes == [key |-> <<>>, converter |-> {}]

get_pipeline_options(force_full_page_ocr, do_picture_description, image_resolution_scale, device) ==
    [generate_picture_images |-> TRUE,
     do_picture_description |-> do_picture_description,
     do_formula_enrichment |-> TRUE,
     do_code_enrichment |-> TRUE,
     force_full_page_ocr |-> force_full_page_ocr,
     images_scale |-> image_resolution_scale,
     num_threads |-> NumThreads,
     device |-> device]

(* a cache key that leaves out the OCR flag *)
cache_key_without_ocr(settings, device) ==
    <<FALSE, settings.do_picture_description,
      settings.image_resolution_scale, device>>

cache_key(settings, device) ==
    <<settings.force_full_page_ocr, settings.do_picture_description,
      settings.image_resolution_scale, device>>

(* DocumentConverter(format_options=...): the handle built by worker w *)
DocumentConverter(w, pipeline_options) ==
    [built_by |-> w, pipeline_options |-> pipeline_options]

(* converter is None or cached_key != cache_key *)
NeedsNewConverter(cached, key) ==
    \/ cached.converter = {}
    \/ cached.key # key

-----------------------------------------------------------------------------
(* convert_attachment_to_markdown *)

(* What a worker's call has seen and done so far: its arguments, the        *)
(* status it returned ("running" until then, "raised" for an exception     *)
(* that left the call), whether output_path existed at line 39 and with    *)
(* which content, the steps it performed, the exception it met, the        *)
(* rendered text and the converter handle it invoked.                      *)
NoCall ==
    [attachment |-> 0, settings |-> [overwrite |-> FALSE], status |-> "none",
     existed |-> FALSE, before |-> <<>>, did |-> {}, error |-> <<>>,
     markdown |-> <<>>, invoked |-> {}]

NewCall(attachment, settings, existed, before, status) ==
    [attachment |-> attachment, settings |-> settings, status |-> status,
     existed |-> existed, before |-> before, did |-> {}, error |-> <<>>,
     markdown |-> <<>>, invoked |-> {}]

(* the dry-run return placed before the existing-output return *)
BeginOutcomeDryRunFirst(existed, settings) ==
    IF settings.dry_run THEN "dry-run"
    ELSE IF existed /\ ~settings.overwrite THEN "skipped"
    ELSE "running"

(* the dry-run return left out *)
BeginOutcomeNoDryRun(existed, settings) ==
    IF existed /\ ~settings.overwrite THEN "skipped" ELSE "running"

(* the existing-output return left out *)
BeginOutcomeNoSkip(existed, settings) ==
    IF settings.dry_run THEN "dry-run" ELSE "running"

(* lines 39-53: the two early returns, in the order of the code *)
BeginOutcome(existed, settings) ==
    IF existed /\ ~settings.overwrite THEN "skipped"
    ELSE IF settings.dry_run THEN "dry-run"
    ELSE "running"

(* an except clause that falls through to the final return *)
StatusFallThrough == "converted"

(* the status returned by the except clause *)
StatusOnException == "skipped"

Begin(w, attachment, settings) ==
    /\ pc[w] = "idle"
    /\ LET output_path == compute_output_path(attachment)
           outcome == BeginOutcome(Exists(output_path), settings)
       IN  /\ call' = [call EXCEPT ![w] =
                          NewCall(attachment, settings, Exists(output_path),
                                  IF Exists(output_path) THEN fs[output_path] ELSE <<>>,
                                  outcome)]
           /\ pc' = [pc EXCEPT ![w] =
                          IF outcome = "running" THEN "ensure_directory" ELSE "idle"]
    /\ UNCHANGED <<fs, dirs, downloaded, _converter_local>>

(* line 55: ensure_directory(output_path.parent) creates the directory     *)
(* recursively and never fails when it is already there; a directory that   *)
(* cannot be created raises, outside the try block.                         *)
ensure_directory(directories, dir, ok) ==
    IF ok \/ dir \in directories THEN directories \cup {dir} ELSE directories

EnsureDirectory(w) ==
    /\ pc[w] = "ensure_directory"
    /\ LET dir == Parent(compute_output_path(call[w].attachment)) IN
       \E ok \in BOOLEAN :
          /\ dirs' = ensure_directory(dirs, dir, ok)
          /\ IF dir \in dirs'
             THEN /\ call' = [call EXCEPT ![w].did = @ \cup {"ensure_directory"}]
                  /\ pc' = [pc EXCEPT ![w] = "check_source"]
             ELSE /\ call' = [call EXCEPT ![w].status = "raised",
                                          ![w].error = <<"OSError">>]
                  /\ pc' = [pc EXCEPT ![w] = "idle"]
    /\ UNCHANGED <<fs, downloaded, _converter_local>>

(* the source file check left out *)
SourceAssumed(attachment) == TRUE

(* lines 57-59: the source file check; FileNotFoundError leaves the call *)
SourceExists(attachment) == attachment \in downloaded

CheckSource(w) ==
    /\ pc[w] = "check_source"
    /\ IF SourceExists(call[w].attachment)
       THEN /\ call' = [call EXCEPT ![w].did = @ \cup {"check_source"}]
            /\ pc' = [pc EXCEPT ![w] = "render"]
       ELSE /\ call' = [call EXCEPT ![w].status = "raised",
                                    ![w].error = <<"FileNotFoundError",
                                                   FilePath(call[w].attachment)>>,
                                    ![w].did = @ \cup {"check_source"}]
            /\ pc' = [pc EXCEPT ![w] = "idle"]
    /\ UNCHANGED <<fs, dirs, downloaded, _converter_local>>

(* lines 62 and 121-169: _render_markdown inside the try block.  The engine *)
(* is a black box: building the converter, converting and exporting can    *)
(* each raise, and a conversion can end without a document.                *)
EngineOutcomes ==
    {"ok", "construct_raises", "convert_raises", "no_document", "export_raises"}

Render(w) ==
    /\ pc[w] = "render"
    /\ \E outcome \in EngineOutcomes :
        LET settings == call[w].settings
            slot == LocalSlot(w)
            key == cache_key(settings, AUTO)
            build == NeedsNewConverter(_converter_local[slot], key)
            converter ==
                IF build
                THEN DocumentConverter(w,
                        get_pipeline_options(settings.force_full_page_ocr,
                                             settings.do_picture_description,
                                             settings.image_resolution_scale, AUTO))
                ELSE CHOOSE c \in _converter_local[slot].converter : TRUE
            document == [source |-> FilePath(call[w].attachment)]
            steps == (IF build THEN {"construct"} ELSE {})
                     \cup (IF outcome # "construct_raises" THEN {"convert"} ELSE {})
        IN  \* only a converter that is being built can fail to build
            /\ outcome = "construct_raises" => build
            \* lines 156-157 run once the constructor has returned
            /\ _converter_local' =
                  IF build /\ outcome # "construct_raises"
                  THEN [_converter_local EXCEPT ![slot] =
                           [key |-> key, converter |-> {converter}]]
                  ELSE _converter_local
            /\ IF outcome = "ok"
               THEN /\ call' = [call EXCEPT ![w].markdown = export_to_markdown(document),
                                            ![w].did = @ \cup steps,
                                            ![w].invoked = {converter}]
                    /\ pc' = [pc EXCEPT ![w] = "write"]
               ELSE \* lines 65-71: the except clause
                    /\ call' = [call EXCEPT ![w].status = StatusOnException,
                                            ![w].error = <<outcome>>,
                                            ![w].did = @ \cup steps,
                                            ![w].invoked =
                                                IF outcome = "construct_raises"
                                                THEN {} ELSE {converter}]
                    /\ pc' = [pc EXCEPT ![w] = "idle"]
    /\ UNCHANGED <<fs, dirs, downloaded>>

(* lines 63-76: the write, still inside the try block, then the return *)
Write(w) ==
    /\ pc[w] = "write"
    /\ \E outcome \in WriteOutcomes :
        LET output_path == compute_output_path(call[w].attachment) IN
        /\ fs' = write_bytes(fs, output_path, Encode(call[w].markdown), outcome)
        /\ call' = [call EXCEPT ![w].status =
                                    IF outcome = "ok" THEN "converted"
                                    ELSE StatusOnException,
                                ![w].error = IF outcome = "ok" THEN <<>> ELSE <<outcome>>,
                                ![w].did = @ \cup {"write"}]
        /\ pc' = [pc EXCEPT ![w] = "idle"]
    /\ UNCHANGED <<dirs, downloaded, _converter_local>>

Init ==
    /\ \E E \in SUBSET OutputPaths :
          /\ fs = [p \in E |-> OldContent]
          /\ dirs \in {D \in SUBSET Directories : \A p \in E : Parent(p) \in D}
    /\ downloaded \in SUBSET Attachments
    /\ _converter_local = [s \in Workers |-> NoAttributes]
    /\ pc = [w \in Workers |-> "idle"]
    /\ call = [w \in Workers |-> NoCall]

(* one worker thread calling convert_attachment_to_markdown again and again *)
Next ==
    \E w \in {MainThread} :
        \/ \E a \in Attachments, s \in ExportSettings : Begin(w, a, s)
        \/ EnsureDirectory(w)
        \/ CheckSource(w)
        \/ Render(w)
        \/ Write(w)

Spec == Init /\ [][Next]_vars

(* a pool of worker threads running one batch that overwrites its outputs *)
PoolAttachments == {1}
PoolSettings == {s \in ExportSettings : s.overwrite /\ ~s.dry_run}

PoolInit ==
    /\ Init
    /\ fs = <<>>
    /\ dirs = {}
    /\ downloaded = Attachments

PoolNext ==
    \E w \in Workers :
        \/ \E a \in PoolAttachments, s \in PoolSettings : Begin(w, a, s)
        \/ EnsureDirectory(w)
        \/ CheckSource(w)
        \/ Render(w)
        \/ Write(w)

PoolSpec == PoolInit /\ [][PoolNext]_vars

-----------------------------------------------------------------------------
(* Vocabulary of the properties *)

Statuses == {"converted", "skipped", "dry-run"}

(* worker w is back from a call *)
Returned(w) == pc[w] = "idle" /\ call[w].status # "none"

(* the step is worker w entering convert_attachment_to_markdown *)
Begins(w) == pc[w] = "idle" /\ (call'[w] # call[w] \/ pc'[w] # "idle")

(* the step is worker w running _render_markdown *)
Renders(w) == pc[w] = "render" /\ pc'[w] # "render"

(* the Markdown the engine renders from the attachment's local file *)
Rendering(attachment) ==
    <<"markdown", FilePath(attachment), "embedded", "--- Page Break ---">>

ExpectedKey(settings) ==
    <<settings.force_full_page_ocr, settings.do_picture_description,
      settings.image_resolution_scale, AUTO>>

EngineErrors ==
    {<<"construct_raises">>, <<"convert_raises">>, <<"no_document">>,
     <<"export_raises">>}

-----------------------------------------------------------------------------
(* C1: a call that finds its output path existing while overwrite is false  *)
(* returns `skipped` in its first step, whatever dry_run is: no file and no *)
(* directory changes, the source file is not looked at (nothing is raised), *)
(* and no converter is built, cached or invoked.                            *)
C1_SkipExistingTouchesNothing ==
    [][\A w \in Workers :
        (/\ Begins(w)
         /\ compute_output_path(call'[w].attachment) \in DOMAIN fs
         /\ ~call'[w].settings.overwrite)
        => /\ pc'[w] = "idle"
           /\ call'[w].status = "skipped"
           /\ call'[w].did = {}
           /\ call'[w].error = <<>>
           /\ call'[w].invoked = {}
           /\ fs' = fs
           /\ dirs' = dirs
           /\ _converter_local' = _converter_local]_vars

C1_Witness ==
    \E w \in Workers :
        /\ Returned(w)
        /\ call[w].status = "skipped"
        /\ call[w].existed
        /\ ~call[w].settings.overwrite
        /\ call[w].settings.dry_run
        /\ call[w].attachment \notin downloaded
        /\ call[w].did = {}

(* C2 as stated: every call with dry_run = TRUE returns `dry-run`, having   *)
(* done nothing.                                                            *)
C2_DryRunAlwaysReportsDryRun ==
    \A w \in Workers :
        (Returned(w) /\ call[w].settings.dry_run)
        => call[w].status = "dry-run" /\ call[w].did = {}

(* C2 amended: a call with dry_run = TRUE returns in its first step without *)
(* creating a file or directory and without building or invoking a          *)
(* converter; its status is `skipped` when the output exists and overwrite  *)
(* is false, and `dry-run` otherwise.                                       *)
C2_DryRunTouchesNothing ==
    [][\A w \in Workers :
        (Begins(w) /\ call'[w].settings.dry_run)
        => /\ pc'[w] = "idle"
           /\ call'[w].status =
                 IF /\ compute_output_path(call'[w].attachment) \in DOMAIN fs
                    /\ ~call'[w].settings.overwrite
                 THEN "skipped" ELSE "dry-run"
           /\ call'[w].did = {}
           /\ call'[w].invoked = {}
           /\ fs' = fs
           /\ dirs' = dirs
           /\ _converter_local' = _converter_local]_vars

C2_Witness ==
    \E w \in Workers :
        /\ Returned(w)
        /\ call[w].status = "dry-run"
        /\ call[w].settings.dry_run
        /\ ~call[w].settings.overwrite
        /\ ~call[w].existed
        /\ compute_output_path(call[w].attachment) \notin DOMAIN fs
        /\ Parent(compute_output_path(call[w].attachment)) \notin dirs

(* C3 as stated: a call whose source file does not exist raises            *)
(* FileNotFoundError naming the path, and writes nothing.                   *)
C3_MissingSourceAlwaysRaises ==
    \A w \in Workers :
        (Returned(w) /\ call[w].attachment \notin downloaded)
        => /\ call[w].status = "raised"
           /\ call[w].error = <<"FileNotFoundError", FilePath(call[w].attachment)>>
           /\ "write" \notin call[w].did

(* C3 amended: a call whose source file does not exist never renders,      *)
(* never writes and never returns `converted`; it raises FileNotFoundError  *)
(* naming file_path once it reaches the source check, which it does when    *)
(* the output is absent or overwrite is true, dry_run is false and the      *)
(* destination directory is there after ensure_directory.                   *)
C3_MissingSourceRaisesAtCheck ==
    [][\A w \in Workers :
        (/\ call'[w].status # "none"
         /\ call'[w].attachment \notin downloaded
         /\ (call'[w] # call[w] \/ pc'[w] # pc[w]))
        => /\ fs' = fs
           /\ pc'[w] \notin {"render", "write"}
           /\ call'[w].status # "converted"
           /\ "write" \notin call'[w].did
           /\ (/\ Begins(w)
               /\ ~call'[w].settings.dry_run
               /\ \/ call'[w].settings.overwrite
                  \/ compute_output_path(call'[w].attachment) \notin DOMAIN fs)
              => pc'[w] = "ensure_directory"
           /\ (/\ pc[w] = "ensure_directory"
               /\ Parent(compute_output_path(call[w].attachment)) \in dirs')
              => pc'[w] = "check_source"
           /\ pc[w] = "check_source"
              => /\ pc'[w] = "idle"
                 /\ call'[w].status = "raised"
                 /\ call'[w].error =
                       <<"FileNotFoundError", FilePath(call[w].attachment)>>]_vars

C3_Witness ==
    \E w \in Workers :
        /\ Returned(w)
        /\ call[w].attachment \notin downloaded
        /\ call[w].status = "raised"
        /\ call[w].error = <<"FileNotFoundError", FilePath(call[w].attachment)>>
        /\ compute_output_path(call[w].attachment) \notin DOMAIN fs
        /\ Parent(compute_output_path(call[w].attachment)) \in dirs

(* C4 as stated: of two calls in sequence with the same attachment and      *)
(* settings, overwrite false, the first returns `converted` (or `skipped`   *)
(* with the output already there) and the second returns `skipped` and      *)
(* leaves the files as they are.                                            *)
C4_TwiceConvertedThenSkipped ==
    [][\A w \in Workers :
        (/\ Returned(w)
         /\ Begins(w)
         /\ call'[w].attachment = call[w].attachment
         /\ call'[w].settings = call[w].settings
         /\ ~call[w].settings.overwrite)
        => /\ \/ call[w].status = "converted"
              \/ call[w].status = "skipped" /\ call[w].existed
           /\ call'[w].status = "skipped"
           /\ fs' = fs]_vars

(* C4 amended: of two calls in sequence with the same attachment and        *)
(* settings, overwrite false, when the first returned `converted` or found  *)
(* the output already there, the second returns `skipped` in its first step *)
(* and leaves the files as they are.                                        *)
C4_SecondCallSkips ==
    [][\A w \in Workers :
        (/\ Returned(w)
         /\ Begins(w)
         /\ call'[w].attachment = call[w].attachment
         /\ call'[w].settings = call[w].settings
         /\ ~call[w].settings.overwrite
         /\ (call[w].status = "converted" \/ call[w].existed))
        => /\ pc'[w] = "idle"
           /\ call'[w].status = "skipped"
           /\ fs' = fs]_vars

C4_Witness ==
    \E w \in Workers :
        /\ Returned(w)
        /\ call[w].status = "skipped"
        /\ ~call[w].settings.overwrite
        /\ ~call[w].settings.dry_run
        /\ call[w].attachment \in downloaded
        /\ call[w].existed
        /\ call[w].before = Rendering(call[w].attachment)
        /\ fs[compute_output_path(call[w].attachment)] = call[w].before

(* C5 as stated: a call with overwrite true and dry_run false that finds an *)
(* output file whose content differs from the rendering returns            *)
(* `converted`, and the file then holds exactly the rendering.              *)
C5_OverwriteAlwaysConverts ==
    \A w \in Workers :
        (/\ Returned(w)
         /\ call[w].settings.overwrite
         /\ ~call[w].settings.dry_run
         /\ call[w].existed
         /\ call[w].before # Rendering(call[w].attachment))
        => /\ call[w].status = "converted"
           /\ fs[compute_output_path(call[w].attachment)]
                 = Rendering(call[w].attachment)

(* C5 amended: such a call returns `converted` when its source file exists  *)
(* and neither the engine nor the write fails, and the file then holds      *)
(* exactly the rendering, nothing of the old content kept; with the source  *)
(* file missing it raises FileNotFoundError, and when the engine or the     *)
(* write fails it returns `skipped`.                                        *)
C5_OverwriteReplaces ==
    \A w \in Workers :
        (/\ Returned(w)
         /\ call[w].settings.overwrite
         /\ ~call[w].settings.dry_run
         /\ call[w].existed
         /\ call[w].before # Rendering(call[w].attachment))
        => LET output_path == compute_output_path(call[w].attachment) IN
           /\ output_path \in DOMAIN fs
           /\ call[w].attachment \notin downloaded
              => /\ call[w].status = "raised"
                 /\ call[w].error[1] = "FileNotFoundError"
                 /\ fs[output_path] = call[w].before
           /\ (call[w].attachment \in downloaded /\ call[w].error = <<>>)
              => /\ call[w].status = "converted"
                 /\ fs[output_path] = Rendering(call[w].attachment)
           /\ (call[w].attachment \in downloaded /\ call[w].error # <<>>)
              => call[w].status = "skipped"

C5_Witness ==
    \E w \in Workers :
        /\ Returned(w)
        /\ call[w].settings.overwrite
        /\ ~call[w].settings.dry_run
        /\ call[w].existed
        /\ call[w].before = OldContent
        /\ call[w].status = "converted"
        /\ fs[compute_output_path(call[w].attachment)]
              = Rendering(call[w].attachment)

(* C6: a call whose source file exists never raises: every failure of any   *)
(* step is absorbed and the call returns a status.                          *)
C6_OnlyMissingSourceRaises ==
    \A w \in Workers :
        (Returned(w) /\ call[w].attachment \in downloaded)
        => call[w].status \in Statuses

(* C7 as stated: a render call builds a converter exactly when the thread   *)
(* has none cached or the cached key differs from the key of the call, and  *)
(* reuses the cached one otherwise; after the call the cached key is the    *)
(* key of the call and the handle invoked has the options of that key.      *)
C7_CacheFollowsEveryCall ==
    [][\A w \in Workers :
        Renders(w)
        => LET key == ExpectedKey(call[w].settings)
               cached == _converter_local[w]
               now == _converter_local'[w]
           IN  /\ "construct" \in call'[w].did
                  <=> (cached.converter = {} \/ cached.key # key)
               /\ (cached.converter # {} /\ cached.key = key) => now = cached
               /\ now.key = key
               /\ call'[w].invoked = now.converter]_vars

(* C7 amended: the same, for every render call in which building the        *)
(* converter does not raise; when it raises, the cached key and handle      *)
(* stay as they were and no handle is invoked.                              *)
C7_CacheFollowsCall ==
    [][\A w \in Workers :
        Renders(w)
        => LET settings == call[w].settings
               key == ExpectedKey(settings)
               cached == _converter_local[w]
               now == _converter_local'[w]
           IN  /\ "construct" \in call'[w].did
                  <=> (cached.converter = {} \/ cached.key # key)
               /\ (cached.converter # {} /\ cached.key = key) => now = cached
               /\ IF call'[w].error = <<"construct_raises">>
                  THEN now = cached /\ call'[w].invoked = {}
                  ELSE /\ now.key = key
                       /\ Cardinality(now.converter) = 1
                       /\ call'[w].invoked = now.converter
                       /\ \A h \in call'[w].invoked :
                             /\ h.pipeline_options.force_full_page_ocr
                                   = settings.force_full_page_ocr
                             /\ h.pipeline_options.do_picture_description
                                   = settings.do_picture_description
                             /\ h.pipeline_options.images_scale
                                   = settings.image_resolution_scale
                             /\ h.pipeline_options.device = AUTO]_vars

C7_Witness ==
    \E w \in Workers :
        /\ pc[w] = "write"
        /\ "construct" \notin call[w].did
        /\ call[w].invoked = _converter_local[w].converter
        /\ _converter_local[w].key = ExpectedKey(call[w].settings)

(* C8: under any interleaving of the worker threads, a converter handle is  *)
(* cached and invoked only by the thread that built it, and a render call   *)
(* of one thread leaves the cached key and handle of every other thread as  *)
(* they were.                                                               *)
C8_HandlesStayWithTheirThread ==
    /\ [](\A w \in Workers :
            /\ \A h \in call[w].invoked : h.built_by = w
            /\ \A h \in _converter_local[w].converter : h.built_by = w)
    /\ [][\A w \in Workers :
            Renders(w)
            => \A v \in Workers \ {w} :
                  _converter_local'[v] = _converter_local[v]]_vars

C8_Witness ==
    \E w \in Workers, v \in Workers :
        /\ w # v
        /\ _converter_local[w].converter # {}
        /\ _converter_local[v].converter # {}
        /\ _converter_local[w].key # _converter_local[v].key
        /\ pc[w] = "write"
        /\ "construct" \in call[w].did
        /\ pc[v] = "write"
        /\ "construct" \notin call[v].did

(* C9: a call returns `converted` only from the write step, after the      *)
(* output was absent or overwrite true, dry_run false, the directory       *)
(* ensured, the source file found and the engine invoked; at that return   *)
(* the output path exists and holds the Markdown rendered in that call.     *)
C9_ConvertedMeansWritten ==
    [][\A w \in Workers :
        (call'[w] # call[w] /\ call'[w].status = "converted")
        => LET output_path == compute_output_path(call'[w].attachment) IN
           /\ pc[w] = "write"
           /\ pc'[w] = "idle"
           /\ call'[w].attachment = call[w].attachment
           /\ output_path \in DOMAIN fs'
           /\ fs'[output_path] = Rendering(call'[w].attachment)
           /\ call'[w].markdown = Rendering(call'[w].attachment)
           /\ {"ensure_directory", "check_source", "convert", "write"}
                 \subseteq call'[w].did
           /\ call'[w].invoked # {}
           /\ call'[w].error = <<>>
           /\ call'[w].attachment \in downloaded
           /\ Parent(output_path) \in dirs
           /\ ~call'[w].settings.dry_run
           /\ (call'[w].settings.overwrite \/ ~call'[w].existed)]_vars

C9_Witness ==
    \E w \in Workers :
        /\ Returned(w)
        /\ call[w].status = "converted"
        /\ ~call[w].existed
        /\ ~call[w].settings.overwrite
        /\ fs[compute_output_path(call[w].attachment)]
              = Rendering(call[w].attachment)

(* C10: a call in which the engine fails in the render step returns        *)
(* `skipped` without having written: the output path is as the call found  *)
(* it, absent if it was absent and with its old content if it existed.     *)
C10_EngineFailureKeepsOutput ==
    \A w \in Workers :
        (Returned(w) /\ call[w].error \in EngineErrors)
        => LET output_path == compute_output_path(call[w].attachment) IN
           /\ call[w].status = "skipped"
           /\ "write" \notin call[w].did
           /\ IF call[w].existed
              THEN output_path \in DOMAIN fs /\ fs[output_path] = call[w].before
              ELSE output_path \notin DOMAIN fs

C10_Witness ==
    \E w \in Workers :
        /\ Returned(w)
        /\ call[w].error = <<"no_document">>
        /\ call[w].settings.overwrite
        /\ call[w].existed
        /\ call[w].status = "skipped"
        /\ fs[compute_output_path(call[w].attachment)] = OldContent
====
